---- MODULE Spec2Model ----
(***************************************************************************)
(* CMA-ES ask/tell core of evosax (src/evosax/strategies/cma_es.py).       *)
(*                                                                         *)
(* Numbers.  The program computes in floating point.  The model keeps the  *)
(* sign and the decade of every number: 0 is zero, E(k) is +10^k, -E(k) is *)
(* -10^k, Inf is an overflowed value and NaN is not-a-number.  Products,   *)
(* quotients and square roots are exact on decades; a sum is its dominant  *)
(* term, and two terms that cancel leave zero.  Factors of order one       *)
(* (weights, learning rates) are E(0).  An eigenvalue that lies Precision  *)
(* decades below the largest one is computed within the rounding error of  *)
(* the largest: as itself, as that error, or as its negative.              *)
(*                                                                         *)
(* Matrices.  Candidates are drawn along the coordinate axes, so the       *)
(* covariance is diagonal plus, in the decomposition's inputs, an          *)
(* antisymmetric part; its eigendecomposition is then the sort of its      *)
(* diagonal, and B is a permutation matrix given by its columns.           *)
(***************************************************************************)
EXTENDS Integers, Sequences, FiniteSets, TLC

VARIABLES pc, params, memory, ret, ntell, eig

vars == <<pc, params, memory, ret, ntell, eig>>

(***************************************************************************)
(* Bounds of the model.                                                    *)
(***************************************************************************)
\* decades run from -MaxDecade to MaxDecade; beyond is Inf, below is 0
MaxDecade == 60
\* tell calls explored in one run
MaxGen == 13
\* tell is explored while the entries of C are at most 10^MaxGrowth
MaxGrowth == 6
\* the caller's candidates vary in the first MaxVaried tell calls of a run;
\* later calls pass candidates at the mean
MaxVaried == 4

(***************************************************************************)
(* Program constants, as decades.                                          *)
(***************************************************************************)
\* 1e-20, the value a negative eigenvalue is replaced by
FloorDecade == -20
\* tol_x = 1e-12 * sigma
TolXDecade == -12
\* tol_x_up = 1e4
TolXUpDecade == 4
\* tol_fun = 1e-12
TolFunDecade == -12
\* tol_condition_C = 1e14
TolCondDecade == 14
min_generations == 10
\* decades of a float32 mantissa, the default float of jax.numpy: a term
\* that many decades below the other is lost in their sum
Precision == 8

(***************************************************************************)
(* Decade arithmetic.                                                      *)
(***************************************************************************)
Off == MaxDecade + 1
E(k) == Off + k
Inf == E(MaxDecade)
NaN == 4 * Off
One == E(0)

Sgn(a) == IF a > 0 THEN 1 ELSE IF a < 0 THEN -1 ELSE 0
Mag(a) == IF a < 0 THEN -a ELSE a
Dec(a) == Mag(a) - Off
IsInf(a) == Mag(a) = Inf
Finite(a) == a # NaN /\ ~IsInf(a)

Mk(s, k) ==
  IF s = 0 THEN 0
  ELSE IF k > MaxDecade THEN s * Inf
  ELSE IF k < -MaxDecade THEN 0
  ELSE s * E(k)

Neg(a) == IF a = NaN THEN NaN ELSE -a

Mul(a, b) ==
  IF a = NaN \/ b = NaN THEN NaN
  ELSE IF (a = 0 /\ IsInf(b)) \/ (b = 0 /\ IsInf(a)) THEN NaN
  ELSE IF a = 0 \/ b = 0 THEN 0
  ELSE IF IsInf(a) \/ IsInf(b) THEN Sgn(a) * Sgn(b) * Inf
  ELSE Mk(Sgn(a) * Sgn(b), Dec(a) + Dec(b))

Inv(a) ==
  IF a = NaN THEN NaN
  ELSE IF a = 0 THEN Inf
  ELSE IF IsInf(a) THEN 0
  ELSE Mk(Sgn(a), -Dec(a))

Div(a, b) == Mul(a, Inv(b))

Sqrt(a) ==
  IF a = NaN \/ a < 0 THEN NaN
  ELSE IF a = 0 \/ IsInf(a) THEN a
  ELSE E(Dec(a) \div 2)

\* comparisons of floats: any comparison with NaN is false
Lt(a, b) == a # NaN /\ b # NaN /\ a < b
Gt(a, b) == Lt(b, a)
Le(a, b) == a # NaN /\ b # NaN /\ a <= b

\* a + b
Add(a, b) ==
  IF a = NaN \/ b = NaN THEN NaN
  ELSE IF IsInf(a) /\ IsInf(b) /\ a # b THEN NaN
  ELSE IF Mag(a) > Mag(b) THEN a
  ELSE IF Mag(b) > Mag(a) THEN b
  ELSE IF a = b THEN a
  ELSE 0

Sub(a, b) == Add(a, Neg(b))

\* e^t by decades: e^(10^k) = 10^(0.43 * 10^k)
Exp(t) ==
  IF t = NaN THEN NaN
  ELSE IF t = 0 THEN One
  ELSE IF t = Inf THEN Inf
  ELSE IF t = -Inf THEN 0
  ELSE IF t > 0
    THEN (IF Dec(t) <= 0 THEN One
          ELSE IF Dec(t) = 1 THEN E(4)
          ELSE IF Dec(t) = 2 THEN E(43)
          ELSE Inf)
    ELSE (IF Dec(t) < 0 THEN One
          ELSE IF Dec(t) = 0 THEN E(-1)
          ELSE IF Dec(t) = 1 THEN E(-4)
          ELSE IF Dec(t) = 2 THEN E(-43)
          ELSE 0)

(***************************************************************************)
(* Vectors (sequences of numbers) and optional values.                     *)
(***************************************************************************)
None == <<>>
Some(v) == <<v>>
Get(o) == o[1]

Zeros(n) == [i \in 1..n |-> 0]
Scale(a, v) == [i \in 1..Len(v) |-> Mul(a, v[i])]
AddV(v, w) == [i \in 1..Len(v) |-> Add(v[i], w[i])]
SubV(v, w) == [i \in 1..Len(v) |-> Sub(v[i], w[i])]

RECURSIVE SumFrom(_, _)
SumFrom(v, i) == IF i > Len(v) THEN 0 ELSE Add(v[i], SumFrom(v, i + 1))
Sum(v) == SumFrom(v, 1)

\* jnp.linalg.norm: the magnitude of the dominant component
Norm(v) == Sum([i \in 1..Len(v) |-> IF v[i] = NaN THEN NaN ELSE Mag(v[i])])

RECURSIVE MaxFrom(_, _)
MaxFrom(v, i) ==
  IF i = Len(v) THEN v[i]
  ELSE LET m == MaxFrom(v, i + 1) IN IF v[i] > m THEN v[i] ELSE m
\* jnp.max / jnp.min: NaN if any entry is NaN
Max(v) == IF \E i \in 1..Len(v) : v[i] = NaN THEN NaN ELSE MaxFrom(v, 1)
Min(v) == IF \E i \in 1..Len(v) : v[i] = NaN THEN NaN
          ELSE Neg(MaxFrom([i \in 1..Len(v) |-> -v[i]], 1))

\* a value of order one computed from the numbers in v: NaN if one is NaN
OrderOne(v) == IF \E i \in 1..Len(v) : v[i] = NaN THEN NaN ELSE One

\* Python's min(a, b, ...): keeps the first unless a later one compares less
RECURSIVE PyMinFrom(_, _, _)
PyMinFrom(v, i, m) ==
  IF i > Len(v) THEN m
  ELSE PyMinFrom(v, i + 1, IF Lt(v[i], m) THEN v[i] ELSE m)
PyMin(v) == PyMinFrom(v, 2, v[1])

\* v[:k] and v[k:] of Python, for 0 <= k
Take(v, k) == SubSeq(v, 1, IF k < Len(v) THEN k ELSE Len(v))
Drop(v, k) == SubSeq(v, (IF k < Len(v) THEN k ELSE Len(v)) + 1, Len(v))

(***************************************************************************)
(* Matrices: [d |-> diagonal, skew |-> the antisymmetric part].            *)
(***************************************************************************)
Diagonal(d) == [d |-> d, skew |-> 0]
eye(n) == Diagonal([i \in 1..n |-> One])
diag(C) == C.d

\* (C + C.T) / 2
Symmetrize(C) == [C EXCEPT !.skew = Sub(@, @)]

\* the indices of v in ascending order of its entries, equal entries in the
\* order of their indices
Ascending(v) ==
  LET rank(j) == Cardinality({k \in 1..Len(v) :
                    v[k] < v[j] \/ (v[k] = v[j] /\ k < j)}) + 1
  IN [i \in 1..Len(v) |-> CHOOSE j \in 1..Len(v) : rank(j) = i]

\* the decade of the largest entry of d
TopDecade(d) ==
  LET nz == {Dec(d[i]) : i \in {j \in 1..Len(d) : d[j] # 0}}
  IN IF nz = {} THEN -MaxDecade ELSE CHOOSE k \in nz : \A m \in nz : m <= k

\* the eigenvalues as float32 computes them: rnd is the rounding of the
\* call, -1, 0 or 1, and decides the eigenvalues that lie Precision decades
\* or more below the largest
Computed(d, rnd) ==
  [i \in 1..Len(d) |->
     IF rnd # 0 /\ d[i] # 0 /\ TopDecade(d) - Dec(d[i]) >= Precision
     THEN Mk(rnd, TopDecade(d) - Precision) ELSE d[i]]

\* the sort of the eigenvalues v: eigenvalues ascending, B's k-th column is
\* the coordinate axis B[k]
SortedBy(v, p) == [D2 |-> [k \in 1..Len(v) |-> v[p[k]]], B |-> p]

\* jnp.linalg.eigh of a symmetric matrix; all NaN when an entry is not finite
eigh(C, rnd) ==
  IF (\E i \in 1..Len(C.d) : ~Finite(C.d[i])) \/ ~Finite(C.skew)
  THEN [D2 |-> [k \in 1..Len(C.d) |-> NaN], B |-> [k \in 1..Len(C.d) |-> 0]]
  ELSE SortedBy(Computed(C.d, rnd), Ascending(Computed(C.d, rnd)))

\* B . diag(v) . B^T; an entry of v that is not finite meets the zeros of B
\* and of diag(v) in the products (0 * inf, 0 * NaN), which leaves NaN
Sandwich(B, v) ==
  IF \E k \in 1..Len(B) : B[k] = 0 \/ ~Finite(v[k])
  THEN [d |-> [i \in 1..Len(B) |-> NaN], skew |-> NaN]
  ELSE Diagonal([i \in 1..Len(B) |->
                   v[CHOOSE k \in 1..Len(B) : B[k] = i]])

\* jnp.sqrt(jnp.where(D2 < 0, 1e-20, D2))
ClampedRoot(D2) ==
  [k \in 1..Len(D2) |-> Sqrt(IF Lt(D2[k], 0) THEN E(FloorDecade) ELSE D2[k])]

\* C = B @ jnp.diag(D ** 2) @ B.T, returned with B and D
Reconstruct(B, D) ==
  [C |-> Sandwich(B, [k \in 1..Len(D) |-> Mul(D[k], D[k])]),
   B |-> Some(B), D |-> Some(D), eigh |-> TRUE]

\* the branch of eigen_decomposition that decomposes; e is eigh's result
Decompose(e) == Reconstruct(e.B, ClampedRoot(e.D2))

\* the mutant of eigen_decomposition that trusts a half-filled cache
eigen_decomposition_either(C, B, D, rnd) ==
  IF B # None \/ D # None
  THEN [C |-> C, B |-> B, D |-> D, eigh |-> FALSE]
  ELSE Decompose(eigh(Symmetrize(C), rnd))

\* eigen_decomposition(C, B, D); rnd is the rounding of its eigh, and the
\* field eigh records whether it decomposed
eigen_decomposition(C, B, D, rnd) ==
  IF B # None /\ D # None
  THEN [C |-> C, B |-> B, D |-> D, eigh |-> FALSE]
  ELSE Decompose(eigh(Symmetrize(C), rnd))

\* M . v for a matrix of the model
MatVec(M, v) ==
  IF \E i \in 1..Len(v) : ~Finite(M.d[i])
  THEN [i \in 1..Len(v) |-> NaN]
  ELSE [i \in 1..Len(v) |-> Mul(M.d[i], v[i])]

(***************************************************************************)
(* init_strategy                                                           *)
(***************************************************************************)
NoParams == [pop_size |-> 0]
NoMemory == [generation |-> 0]

\* log((population_size + 1) / 2) - log(i + 1), i from 0: its sign
weights_prime(population_size) ==
  [k \in 1..(IF population_size > 0 THEN population_size ELSE 0) |->
     LET d == (population_size + 1) - 2 * k
     IN IF d > 0 THEN One ELSE IF d < 0 THEN -One ELSE 0]

\* (sum w)^2 / sum w^2
EffectiveSize(w) ==
  Div(Mul(Sum(w), Sum(w)), Sum([i \in 1..Len(w) |-> Mul(w[i], w[i])]))

init_strategy(mean_init, sigma, population_size, mu) ==
  LET n_dim == Len(mean_init)
      wp == weights_prime(population_size)
      mu_eff == EffectiveSize(Take(wp, mu))
      mu_eff_minus == EffectiveSize(Drop(wp, mu))
      c_1 == OrderOne(<<mu_eff>>)
      c_mu == OrderOne(<<c_1, mu_eff>>)
      min_alpha == PyMin(<<OrderOne(<<c_1, c_mu>>),
                           OrderOne(<<mu_eff_minus, mu_eff>>),
                           OrderOne(<<c_1, c_mu>>)>>)
      positive_sum == Sum(SelectSeq(wp, LAMBDA w : Gt(w, 0)))
      negative_sum == Sum([i \in 1..Len(wp) |->
                             IF Lt(wp[i], 0) THEN Mag(wp[i]) ELSE 0])
      weights == [i \in 1..Len(wp) |->
                    IF Le(0, wp[i]) THEN Mul(Inv(positive_sum), wp[i])
                    ELSE Mul(Div(min_alpha, negative_sum), wp[i])]
  IN IF n_dim = 0
     THEN [raised |-> "ZeroDivisionError", params |-> NoParams,
           memory |-> NoMemory]
     ELSE [raised |-> "",
           params |-> [pop_size |-> population_size, mu |-> mu,
                       mu_eff |-> mu_eff,
                       c_1 |-> c_1, c_mu |-> c_mu, c_m |-> One,
                       c_sigma |-> OrderOne(<<mu_eff>>),
                       d_sigma |-> OrderOne(<<mu_eff>>),
                       c_c |-> OrderOne(<<mu_eff>>), chi_n |-> One,
                       weights |-> weights,
                       tol_x |-> Mul(E(TolXDecade), sigma),
                       tol_x_up |-> E(TolXUpDecade),
                       tol_fun |-> E(TolFunDecade),
                       tol_condition_C |-> E(TolCondDecade),
                       min_generations |-> min_generations],
           memory |-> [p_sigma |-> Zeros(n_dim), p_c |-> Zeros(n_dim),
                       sigma |-> sigma, mean |-> mean_init,
                       C |-> eye(n_dim), D |-> None, B |-> None,
                       generation |-> 0]]

\* check_initialization(): its assertions read names that no scope defines
check_initialization == "NameError"

(***************************************************************************)
(* ask                                                                     *)
(***************************************************************************)
\* reading an attribute of None raises
Attr(o) == IF o = None THEN "AttributeError" ELSE ""

\* B . diag(D) . z for one draw z (a column of the normal sample)
BDz(B, D, z) ==
  IF \E k \in 1..Len(B) : B[k] = 0 \/ ~Finite(D[k])
  THEN [i \in 1..Len(B) |-> NaN]
  ELSE [i \in 1..Len(B) |->
          LET k == CHOOSE j \in 1..Len(B) : B[j] = i IN Mul(D[k], z[k])]

\* x = mean + sigma * y, kept as its two terms
Candidate(mean, sigma, y) == [base |-> mean, dx |-> Scale(sigma, y)]

\* the mutant of ask_cma_strategy that reads the cache of the state as it is
ask_cma_strategy_stale(z, mem, par, rnd) ==
  IF mem.B = None \/ mem.D = None
  THEN [raised |-> "AttributeError", x |-> <<>>, memory |-> mem,
        eigh |-> FALSE]
  ELSE [raised |-> "",
        x |-> [i \in 1..Len(z) |->
                 Candidate(mem.mean, mem.sigma,
                           BDz(Get(mem.B), Get(mem.D), z[i]))],
        memory |-> mem, eigh |-> FALSE]

\* the mutant of Sample that returns the memory without storing C, B, D
Sample_unstored(z, mem, e) ==
  [raised |-> "",
   x |-> [i \in 1..Len(z) |->
            Candidate(mem.mean, mem.sigma, BDz(Get(e.B), Get(e.D), z[i]))],
   memory |-> mem, eigh |-> e.eigh]

\* the lines of ask_cma_strategy after its eigen_decomposition returned e
Sample(z, mem, e) ==
  IF Attr(e.B) # "" \/ Attr(e.D) # ""
  THEN [raised |-> "AttributeError", x |-> <<>>, memory |-> mem,
        eigh |-> e.eigh]
  ELSE [raised |-> "",
        x |-> [i \in 1..Len(z) |->
                 Candidate(mem.mean, mem.sigma,
                           BDz(Get(e.B), Get(e.D), z[i]))],
        memory |-> [mem EXCEPT !.C = e.C, !.B = e.B, !.D = e.D],
        eigh |-> e.eigh]

\* z is the normal draw of the call, rnd the rounding of its decomposition
ask_cma_strategy(z, mem, par, rnd) ==
  Sample(z, mem, eigen_decomposition(mem.C, mem.B, mem.D, rnd))

(***************************************************************************)
(* tell                                                                    *)
(***************************************************************************)
\* sum of vectors of dimension n
RECURSIVE VSumFrom(_, _, _)
VSumFrom(vs, i, n) ==
  IF i > Len(vs) THEN Zeros(n) ELSE AddV(vs[i], VSumFrom(vs, i + 1, n))

\* concat_p_f[:, 0].argsort(): the rows' indices by ascending fitness
argsort(fitness) == Ascending(fitness)

update_mean(sorted_solutions, mu, par, mem) ==
  LET n == Len(mem.mean)
      x_k == sorted_solutions
      y_k == [i \in 1..Len(x_k) |->
                Scale(Inv(mem.sigma),
                      AddV(SubV(x_k[i].base, mem.mean), x_k[i].dx))]
      elite == Take(y_k, mu)
      y_w == VSumFrom([i \in 1..Len(elite) |->
                         Scale(par.weights[i], elite[i])], 1, n)
  IN [y_k |-> y_k, y_w |-> y_w,
      mean |-> AddV(mem.mean, Scale(Mul(par.c_m, mem.sigma), y_w))]

\* B @ jnp.diag(1 / D) @ B.T
InverseRoot(B, D) == Sandwich(B, [k \in 1..Len(D) |-> Inv(D[k])])

\* the mutant of PSigma that hands the decomposition back as the cache
PSigma_kept(y_w, par, mem, e, C_2) ==
  [p_sigma |-> AddV(Scale(OrderOne(<<par.c_sigma>>), mem.p_sigma),
                    Scale(Sqrt(Mul(Mul(par.c_sigma,
                                       OrderOne(<<par.c_sigma>>)),
                                   par.mu_eff)),
                          MatVec(C_2, y_w))),
   C_2 |-> C_2, C |-> e.C, B |-> e.B, D |-> e.D, eigh |-> e.eigh]

\* the lines of update_p_sigma after C_2 is known; e is the decomposition
PSigma(y_w, par, mem, e, C_2) ==
  [p_sigma |-> AddV(Scale(OrderOne(<<par.c_sigma>>), mem.p_sigma),
                    Scale(Sqrt(Mul(Mul(par.c_sigma,
                                       OrderOne(<<par.c_sigma>>)),
                                   par.mu_eff)),
                          MatVec(C_2, y_w))),
   C_2 |-> C_2, C |-> e.C, B |-> None, D |-> None, eigh |-> e.eigh]

\* the lines of update_p_sigma after its eigen_decomposition returned e
PSigmaOf(y_w, par, mem, e) ==
  PSigma(y_w, par, mem, e, InverseRoot(Get(e.B), Get(e.D)))

update_p_sigma(y_w, par, mem, rnd) ==
  PSigmaOf(y_w, par, mem, eigen_decomposition(mem.C, mem.B, mem.D, rnd))

\* the threshold of h_sigma is above chi_n within its decade, so a norm in
\* the decade of chi_n passes
\* 1 - (1 - c_sigma) ** (2 * (generation + 1)): zero when the exponent is
\* zero, of order one otherwise
Cumulated(par, mem) ==
  IF 2 * (mem.generation + 1) = 0 THEN Sub(One, One)
  ELSE OrderOne(<<par.c_sigma>>)

HSigma(norm_p_sigma, par, mem) ==
  IF Le(Div(norm_p_sigma, Sqrt(Cumulated(par, mem))), Mul(One, par.chi_n))
  THEN One ELSE 0

\* the lines of update_p_c after norm_p_sigma and h_sigma are known
PC(y_w, par, mem, norm_p_sigma, h_sigma) ==
  [p_c |-> AddV(Scale(OrderOne(<<par.c_c>>), mem.p_c),
                Scale(Mul(h_sigma,
                          Sqrt(Mul(Mul(par.c_c, OrderOne(<<par.c_c>>)),
                                   par.mu_eff))),
                      y_w)),
   norm_p_sigma |-> norm_p_sigma, h_sigma |-> h_sigma]

\* the lines of update_p_c after norm_p_sigma is known
PCOf(y_w, par, mem, norm_p_sigma) ==
  PC(y_w, par, mem, norm_p_sigma, HSigma(norm_p_sigma, par, mem))

update_p_c(y_w, par, mem) == PCOf(y_w, par, mem, Norm(mem.p_sigma))

\* a + b for b the rank-mu terms of the negative weights: min_alpha and the
\* norm that divides w_io keep them to a fraction of a, so that subtracting
\* them leaves the decade of a
Shrunk(a, b) ==
  IF a # NaN /\ b # NaN /\ Finite(a) /\ a > 0 /\ b < 0 /\ Mag(b) = Mag(a)
  THEN a ELSE Add(a, b)

\* params["weights"] * jnp.where(params["weights"] >= 0, 1, n / (... + 1e-20))
WeightsIO(y_k, C_2, par) ==
  [i \in 1..(IF Len(par.weights) < Len(y_k) THEN Len(par.weights)
             ELSE Len(y_k)) |->
     Mul(par.weights[i],
         IF Le(0, par.weights[i]) THEN One
         ELSE Div(One, Add(Mul(Norm(MatVec(C_2, y_k[i])),
                               Norm(MatVec(C_2, y_k[i]))),
                           E(FloorDecade))))]

\* the diagonal entry i of rank_mu, summed over the weights of sign s
RankMu(y_k, w_io, i, s) ==
  Sum([k \in 1..Len(w_io) |->
         IF w_io[k] = NaN THEN NaN
         ELSE IF Sgn(w_io[k]) = s
         THEN Mul(w_io[k], Mul(y_k[k][i], y_k[k][i])) ELSE 0])

\* the matrix of diagonal d and antisymmetric part skew; a NaN on the diagonal
\* came through an outer product, which spreads it off the diagonal
Matrix(d, skew) ==
  [d |-> d, skew |-> IF \E i \in 1..Len(d) : d[i] = NaN THEN NaN ELSE skew]

\* the lines of update_covariance after w_io and the factor of C are known
Covariance(y_k, par, mem, w_io, coef) ==
  Matrix([i \in 1..Len(mem.mean) |->
            Add(Add(Shrunk(Mul(coef, mem.C.d[i]),
                           Mul(par.c_mu, RankMu(y_k, w_io, i, -1))),
                    Mul(par.c_1, Mul(mem.p_c[i], mem.p_c[i]))),
                Mul(par.c_mu, RankMu(y_k, w_io, i, 1)))],
         Mul(coef, mem.C.skew))

update_covariance(y_k, h_sigma, C_2, par, mem) ==
  Covariance(y_k, par, mem, WeightsIO(y_k, C_2, par),
             OrderOne(<<par.c_1,
                        Mul(Sub(One, h_sigma), OrderOne(<<par.c_c>>)),
                        par.c_mu, Sum(par.weights)>>))

update_sigma(norm_p_sigma, par, mem) ==
  Mul(mem.sigma,
      Exp(Mul(Div(par.c_sigma, par.d_sigma),
              Sub(Div(norm_p_sigma, par.chi_n), One))))

\* The run of tell_cma_strategy is a frame: the memory, the local names
\* bound so far, and log, the memory at entry and after each assignment in
\* the order they ran.
Frame(mem) ==
  [memory |-> mem, log |-> <<mem>>, y_k |-> <<>>, y_w |-> <<>>,
   C_2 |-> Diagonal(<<>>), h_sigma |-> 0, norm_p_sigma |-> 0,
   eigh |-> FALSE]

\* the frame after an assignment that leaves the memory m
Assigned(f, m) == [f EXCEPT !.memory = m, !.log = Append(@, m)]

\* the mutant of StepGeneration that leaves the counter as it is
StepGeneration_skipped(f) == Assigned(f, f.memory)

\* memory["generation"] = memory["generation"] + 1
StepGeneration(f) ==
  Assigned(f, [f.memory EXCEPT !.generation = @ + 1])

\* concat_p_f[concat_p_f[:, 0].argsort()][:, 1:]
Sorted(x, fitness) == [i \in 1..Len(x) |-> x[argsort(fitness)[i]]]

\* y_k, y_w, mean = update_mean(...); memory["mean"] = mean
BindMean(f, um) ==
  [Assigned(f, [f.memory EXCEPT !.mean = um.mean])
     EXCEPT !.y_k = um.y_k, !.y_w = um.y_w]
StepMean(f, x, fitness, mu, par) ==
  BindMean(f, update_mean(Sorted(x, fitness), mu, par, f.memory))

\* p_sigma, C_2, C, B, D = update_p_sigma(...) and its four assignments
BindPSigma(f, ups) ==
  [Assigned(f, [f.memory EXCEPT !.p_sigma = ups.p_sigma, !.C = ups.C,
                                !.B = ups.B, !.D = ups.D])
     EXCEPT !.C_2 = ups.C_2, !.eigh = ups.eigh]
StepPSigma(f, par, rnd) ==
  BindPSigma(f, update_p_sigma(f.y_w, par, f.memory, rnd))

\* p_c, norm_p_sigma, h_sigma = update_p_c(...); memory["p_c"] = p_c
BindPC(f, upc) ==
  [Assigned(f, [f.memory EXCEPT !.p_c = upc.p_c])
     EXCEPT !.norm_p_sigma = upc.norm_p_sigma, !.h_sigma = upc.h_sigma]
StepPC(f, par) == BindPC(f, update_p_c(f.y_w, par, f.memory))

\* C = update_covariance(...); memory["C"] = C
StepCovariance(f, par) ==
  Assigned(f, [f.memory EXCEPT
                 !.C = update_covariance(f.y_k, f.h_sigma, f.C_2, par,
                                         f.memory)])

\* sigma = update_sigma(...); memory["sigma"] = sigma
StepSigma(f, par) ==
  Assigned(f, [f.memory EXCEPT
                 !.sigma = update_sigma(f.norm_p_sigma, par, f.memory)])

\* the mutant of tell_cma_strategy that updates p_c before p_sigma
tell_cma_strategy_swapped(x, fitness, mu, par, mem, rnd) ==
  StepSigma(
    StepCovariance(
      StepPSigma(
        StepPC(
          StepMean(StepGeneration(Frame(mem)), x, fitness, mu, par),
          par),
        par, rnd),
      par),
    par)

\* tell_cma_strategy: the frame after its last assignment; rnd is the
\* rounding of the decomposition it takes
tell_cma_strategy(x, fitness, mu, par, mem, rnd) ==
  StepSigma(
    StepCovariance(
      StepPC(
        StepPSigma(
          StepMean(StepGeneration(Frame(mem)), x, fitness, mu, par),
          par, rnd),
        par),
      par),
    par)

(***************************************************************************)
(* check_termination                                                       *)
(***************************************************************************)
\* m == m + t in floating point
NoEffect(m, t) ==
  /\ m # NaN /\ t # NaN
  /\ \/ t = 0
     \/ IsInf(m) /\ t # -m
     \/ m # 0 /\ Finite(m) /\ Finite(t) /\ Dec(m) - Dec(t) >= Precision

Printed(k) ==
  CASE k = 1 -> "TERMINATE ----> Convergence/No progress in objective"
    [] k = 2 -> "TERMINATE ----> Convergence/Search variance too small"
    [] k = 3 -> "TERMINATE ----> Stepsize sigma exploded"
    [] k = 4 -> "TERMINATE ----> No effect when adding std to mean"
    [] k = 5 -> "TERMINATE ----> No effect when adding std to mean"
    [] k = 6 -> "TERMINATE ----> C condition number exploded"
    [] OTHER -> ""

\* the return of check_termination when condition `fired` returned (0: the
\* final return False)
Return(fired, e) ==
  [raised |-> "", value |-> fired # 0, printed |-> Printed(fired),
   fired |-> fired, eigh |-> e.eigh]

\* the lines of check_termination after dC and the decomposition e are known
Conditions(values, par, mem, dC, e, B, D) ==
  LET n == Len(mem.mean)
      c1 == /\ mem.generation > par.min_generations
            /\ Lt(Sub(Max(values), Min(values)), par.tol_fun)
      c2 == \A i \in 1..n : Lt(Mul(mem.sigma, dC[i]), par.tol_x)
      c3 == Gt(Mul(mem.sigma, Max(D)), par.tol_x_up)
      c4 == \E i \in 1..n :
               NoEffect(mem.mean[i], Mul(mem.sigma, Sqrt(dC[i])))
      c5 == \A i \in 1..n :
               NoEffect(mem.mean[i],
                        Mul(Mul(mem.sigma, D[1]),
                            IF B[1] = 0 THEN NaN
                            ELSE IF B[1] = i THEN One ELSE 0))
      c6 == Gt(Div(Max(D), Min(D)), par.tol_condition_C)
  IN IF c1 THEN Return(1, e)
     \* the second half of the condition reads np, which is not imported
     ELSE IF c2
     THEN [raised |-> "NameError", value |-> FALSE, printed |-> "",
           fired |-> 0, eigh |-> e.eigh]
     ELSE Return(IF c3 THEN 3 ELSE IF c4 THEN 4 ELSE IF c5 THEN 5
                 ELSE IF c6 THEN 6 ELSE 0, e)

\* the lines of check_termination after its eigen_decomposition returned e
ConditionsOf(values, par, mem, dC, e) ==
  Conditions(values, par, mem, dC, e, Get(e.B), Get(e.D))

\* fired is the number of the condition that returned, 0 if none did
check_termination(values, par, mem, rnd) ==
  ConditionsOf(values, par, mem, diag(mem.C),
               eigen_decomposition(mem.C, mem.B, mem.D, rnd))

(***************************************************************************)
(* The driver: init_strategy, then ask, tell, check_termination and        *)
(* check_initialization in any order.                                      *)
(***************************************************************************)
\* the arguments of init_strategy: a valid call, and calls that break one
\* of the preconditions each
InitArgs ==
  { [mean_init |-> <<One, One>>, sigma |-> One, population_size |-> 4],
    [mean_init |-> <<One, One>>, sigma |-> 0, population_size |-> 4],
    [mean_init |-> <<One, One>>, sigma |-> One, population_size |-> 0],
    [mean_init |-> <<One>>, sigma |-> One, population_size |-> 4],
    [mean_init |-> <<>>, sigma |-> One, population_size |-> 4] }

\* a vector of length v along axis a
Axis(n, a, v) == [i \in 1..n |-> IF i = a THEN v ELSE 0]

\* the normal draws of ask for pop candidates: all zero, or one standard
\* normal step along the first axis
Draws(n, pop) ==
  IF pop <= 0 THEN {<<>>}
  ELSE { [i \in 1..pop |-> Zeros(n)], [i \in 1..pop |-> Axis(n, 1, One)] }

\* the candidates handed to tell, as steps from the mean in units of sigma:
\* all at the mean; the first half ten standard deviations and the rest one
\* standard deviation along the first axis; the first half at the mean and
\* the rest one standard deviation along the last axis
Steps(mem, pop) ==
  IF pop <= 0 THEN {<<>>}
  ELSE { [i \in 1..pop |-> Zeros(Len(mem.mean))],
         [i \in 1..pop |->
            Axis(Len(mem.mean), 1,
                 Mul(IF 2 * i <= pop THEN E(1) ELSE One,
                     Sqrt(mem.C.d[1])))],
         [i \in 1..pop |->
            IF 2 * i <= pop THEN Zeros(Len(mem.mean))
            ELSE Axis(Len(mem.mean), Len(mem.mean),
                      Sqrt(mem.C.d[Len(mem.mean)]))] }

\* fitness values: ascending, descending
Fitnesses(pop) ==
  IF pop <= 0 THEN {<<>>}
  ELSE { [i \in 1..pop |-> i], [i \in 1..pop |-> pop - i] }

\* the roundings of one decomposition of C: those that change what it computes
Roundings(C) ==
  IF /\ \A i \in 1..Len(C.d) : Finite(C.d[i])
     /\ \E i \in 1..Len(C.d) : Computed(C.d, -1)[i] # C.d[i]
  THEN {-1, 0, 1} ELSE {0}

\* the inputs of the next tell call: steps, fitness values, rounding
TellInputs(mem, par) ==
  IF mem.generation < MaxVaried
  THEN Steps(mem, par.pop_size) \X Fitnesses(par.pop_size) \X Roundings(mem.C)
  ELSE {<<[i \in 1..(IF par.pop_size > 0 THEN par.pop_size ELSE 0) |->
             Zeros(Len(mem.mean))],
          [i \in 1..(IF par.pop_size > 0 THEN par.pop_size ELSE 0) |-> i],
          0>>}

\* the candidates at the steps y from the mean
Candidates(mem, y) ==
  [i \in 1..Len(y) |-> Candidate(mem.mean, mem.sigma, y[i])]

\* recent fitness values handed to check_termination
Values == {<<One, One>>, <<0, One>>}

\* the covariance stays diagonal: the path of the rank-one term lies along
\* one axis (or is NaN)
AxisAligned(v) ==
  \/ \E i \in 1..Len(v) : v[i] = NaN
  \/ Cardinality({i \in 1..Len(v) : v[i] # 0}) <= 1

\* the covariance is within the decades the run explores
Bounded(mem) ==
  \A i \in 1..Len(mem.mean) :
    ~Finite(mem.C.d[i]) \/ mem.C.d[i] = 0 \/ Dec(mem.C.d[i]) <= MaxGrowth

NoRet == [op |-> "init", raised |-> "", value |-> FALSE, printed |-> "",
          fired |-> 0, eigh |-> FALSE, args |-> <<>>, out |-> 0]
NoEig == [step |-> 0]

Init ==
  \E a \in InitArgs :
    \E r \in {init_strategy(a.mean_init, a.sigma, a.population_size,
                            a.population_size \div 2)} :
       /\ pc = IF r.raised = "" THEN "built" ELSE "failed"
       /\ params = r.params
       /\ memory = r.memory
       /\ ret = [NoRet EXCEPT !.raised = r.raised, !.args = a]
       /\ ntell = 0
       /\ eig = NoEig

Ask ==
  /\ pc = "built"
  /\ \E z \in Draws(Len(memory.mean), params.pop_size),
        rnd \in Roundings(memory.C) :
       \E r \in {ask_cma_strategy(z, memory, params, rnd)} :
          /\ memory' = r.memory
          /\ ret' = [NoRet EXCEPT !.op = "ask", !.raised = r.raised,
                       !.eigh = r.eigh, !.out = Len(r.x)]
  /\ UNCHANGED <<pc, params, ntell, eig>>

Tell ==
  /\ pc = "built"
  /\ memory.generation < MaxGen
  /\ Bounded(memory)
  /\ \E in \in TellInputs(memory, params) :
       \E r \in {tell_cma_strategy(Candidates(memory, in[1]), in[2],
                                   params.mu, params, memory, in[3])} :
          /\ AxisAligned(r.memory.p_c) = TRUE
          /\ memory' = r.memory
          /\ ret' = [NoRet EXCEPT !.op = "tell", !.eigh = r.eigh]
  /\ ntell' = ntell + 1
  /\ UNCHANGED <<pc, params, eig>>

CheckTermination ==
  /\ pc = "built"
  /\ \E values \in Values, rnd \in Roundings(memory.C) :
       \E r \in {check_termination(values, params, memory, rnd)} :
          ret' = [NoRet EXCEPT !.op = "check_termination",
                    !.raised = r.raised, !.value = r.value,
                    !.printed = r.printed, !.fired = r.fired,
                    !.eigh = r.eigh, !.args = values]
  /\ UNCHANGED <<pc, params, memory, ntell, eig>>

CheckInitialization ==
  /\ pc = "built"
  /\ ret' = [NoRet EXCEPT !.op = "check_initialization",
               !.raised = check_initialization]
  /\ UNCHANGED <<pc, params, memory, ntell, eig>>

Next == Ask \/ Tell \/ CheckTermination \/ CheckInitialization

Spec == Init /\ [][Next]_vars

(***************************************************************************)
(* eigen_decomposition as a function of its arguments: one call, then a    *)
(* second call on what the first returned.                                 *)
(***************************************************************************)
\* eigenvalues handed to eigen_decomposition: negative, zero, positive and
\* below 1e-20, one, and large
EigenValues == {-One, 0, E(FloorDecade - 10), One, E(Precision)}

\* its arguments: C symmetric or not, B and D each present or absent
EigenArgs ==
  { [C |-> [d |-> <<a, b>>, skew |-> k], B |-> B, D |-> D, eigh |-> FALSE] :
      a \in EigenValues, b \in EigenValues, k \in {0, One},
      B \in {None, Some(<<1, 2>>)}, D \in {None, Some(<<One, One>>)} }

InitEigen ==
  /\ pc = "eigen"
  /\ params = NoParams
  /\ memory = NoMemory
  /\ ret = NoRet
  /\ ntell = 0
  /\ \E a \in EigenArgs :
       eig = [step |-> 0, args |-> a, first |-> a, second |-> a]

Decomposed ==
  /\ pc = "eigen"
  /\ eig.step = 0
  /\ \E rnd \in Roundings(eig.args.C) :
       eig' = [eig EXCEPT !.step = 1,
                 !.first = eigen_decomposition(eig.args.C, eig.args.B,
                                               eig.args.D, rnd)]
  /\ UNCHANGED <<pc, params, memory, ret, ntell>>

DecomposedAgain ==
  /\ pc = "eigen"
  /\ eig.step = 1
  /\ \E rnd \in Roundings(eig.first.C) :
       eig' = [eig EXCEPT !.step = 2,
                 !.second = eigen_decomposition(eig.first.C, eig.first.B,
                                                eig.first.D, rnd)]
  /\ UNCHANGED <<pc, params, memory, ret, ntell>>

NextEigen == Decomposed \/ DecomposedAgain

SpecEigen == InitEigen /\ [][NextEigen]_vars

(***************************************************************************)
(* The claims.                                                             *)
(***************************************************************************)
\* B and D are both present
Cached(mem) == mem.B # None /\ mem.D # None

\* C1: in every state reached from init_strategy by ask, tell and
\* check_termination, B and D are both present or both absent; when present
\* they are the decomposition of the current C (C is B diag(D^2) B^T); they
\* are absent after init and after every tell, present after every ask.
C1_CacheValid ==
  pc = "built" =>
    /\ (memory.B = None) <=> (memory.D = None)
    /\ Cached(memory) =>
         memory.C = Reconstruct(Get(memory.B), Get(memory.D)).C
    /\ ret.op \in {"init", "tell"} => ~Cached(memory)
    /\ ret.op = "ask" => Cached(memory)

\* C1 witness: an ask has filled the cache after tell calls changed C
C1_Witness ==
  /\ pc = "built" /\ ret.op = "ask" /\ ntell >= 2
  /\ Cached(memory) /\ memory.C # eye(Len(memory.mean))

\* C2: the generation counter equals the number of completed tell calls,
\* whatever fitness values they were passed and whatever ask and
\* check_termination calls ran in between.
C2_GenerationCounts == pc = "built" => memory.generation = ntell

\* C2 witness: tell calls, then another operation, and the counter stands
C2_Witness ==
  /\ pc = "built" /\ ntell >= 2
  /\ ret.op = "check_termination" /\ memory.generation = 2

\* C3 (as claimed): init_strategy called with population_size <= 0,
\* n_dim <= 1 or sigma <= 0 raises InvalidParameters and builds no state.
C3_InitRejects ==
  (/\ ret.op = "init"
   /\ \/ ret.args.population_size <= 0
      \/ Len(ret.args.mean_init) <= 1
      \/ Le(ret.args.sigma, 0))
  => (ret.raised = "InvalidParameters" /\ pc = "failed")

\* C4 (as claimed): when a condition of check_termination fires, what the
\* caller gets (the returned value and the printed line) differs from what
\* each of the other five conditions gives.
C4_ReasonsDistinct ==
  (ret.op = "check_termination" /\ ret.fired # 0) =>
    \A k \in (1..6) \ {ret.fired} :
      <<ret.value, ret.printed>> # <<TRUE, Printed(k)>>

\* C5 (as claimed): when condition 1 does not hold and sigma times the
\* spread of C and sigma * p_c are below tol_x in every coordinate,
\* check_termination returns True and raises nothing.
C5_VarianceTooSmall ==
  (/\ ret.op = "check_termination"
   /\ ~(/\ memory.generation > params.min_generations
        /\ Lt(Sub(Max(ret.args), Min(ret.args)), params.tol_fun))
   /\ \A i \in 1..Len(memory.mean) :
        /\ Lt(Mul(memory.sigma, Sqrt(memory.C.d[i])), params.tol_x)
        /\ Lt(Mul(memory.sigma, memory.C.d[i]), params.tol_x)
        /\ Lt(Mul(memory.sigma, memory.p_c[i]), params.tol_x))
  => (ret.raised = "" /\ ret.value = TRUE)

\* C6 (as claimed): eigen_decomposition called without a cache returns a D
\* with no entry below sqrt(1e-20) = 1e-10.
C6_FloorOfD ==
  (eig.step >= 1 /\ ~Cached(eig.args)) =>
    \A k \in 1..Len(Get(eig.first.D)) :
      Le(Sqrt(E(FloorDecade)), Get(eig.first.D)[k])

\* C7 (as claimed): ask returns the memory with the mean, sigma, p_sigma,
\* p_c, generation and C it was passed, and params as it was (C is compared
\* where it holds numbers: a NaN equals nothing).
C7_AskKeepsC ==
  [][ret'.op = "ask" =>
       /\ params' = params
       /\ memory'.mean = memory.mean /\ memory'.sigma = memory.sigma
       /\ memory'.p_sigma = memory.p_sigma /\ memory'.p_c = memory.p_c
       /\ memory'.generation = memory.generation
       /\ (\A i \in 1..Len(memory.mean) : memory.C.d[i] # NaN)
            => memory'.C = memory.C]_vars

\* C7 (amended): ask leaves params, mean, sigma, p_sigma, p_c and generation
\* as they were and returns B and D present; with a cache it leaves C, B and
\* D as they were, and without one it stores the C, B and D that
\* eigen_decomposition returns: C is replaced by B diag(D^2) B^T of its
\* symmetric part, with the eigenvalues computed below zero replaced by 1e-20.
C7_AskStoresDecomposition ==
  [][ret'.op = "ask" =>
       /\ params' = params
       /\ memory'.mean = memory.mean /\ memory'.sigma = memory.sigma
       /\ memory'.p_sigma = memory.p_sigma /\ memory'.p_c = memory.p_c
       /\ memory'.generation = memory.generation
       /\ Cached(memory')
       /\ IF Cached(memory)
          THEN /\ memory'.C = memory.C
               /\ memory'.B = memory.B /\ memory'.D = memory.D
          ELSE \E rnd \in Roundings(memory.C) :
                 \E e \in {Decompose(eigh(Symmetrize(memory.C), rnd))} :
                    /\ memory'.C = e.C
                    /\ memory'.B = e.B /\ memory'.D = e.D]_vars

\* C7 witness: an ask without a cache has replaced an eigenvalue of C that
\* was computed below zero
C7_Witness ==
  /\ pc = "built" /\ ret.op = "ask" /\ ret.eigh = TRUE
  /\ \E i \in 1..Len(memory.mean) : memory.C.d[i] = E(FloorDecade)

\* C8: a second eigen_decomposition on what the first returned gives back
\* the same C, B and D without decomposing; the first call returns its
\* arguments without decomposing exactly when B and D are both present, and
\* decomposes when only one of them is.
C8_Idempotent ==
  /\ eig.step >= 1 =>
       /\ eig.first.eigh = ~Cached(eig.args)
       /\ Cached(eig.args) =>
            /\ eig.first.C = eig.args.C
            /\ eig.first.B = eig.args.B /\ eig.first.D = eig.args.D
       /\ Cached(eig.first)
  /\ eig.step = 2 =>
       /\ eig.second.eigh = FALSE
       /\ eig.second.C = eig.first.C
       /\ eig.second.B = eig.first.B /\ eig.second.D = eig.first.D

\* C8 witness: the second call after a first call that was handed B only
C8_Witness ==
  /\ eig.step = 2 /\ eig.args.B # None /\ eig.args.D = None
  /\ eig.first.eigh = TRUE /\ eig.second = [eig.first EXCEPT !.eigh = FALSE]

\* the order of tell's assignments in the frame f of a call on mem
TellOrder(f, x, fitness, mu, par, mem, rnd) ==
  /\ Len(f.log) = 7 /\ f.log[1] = mem /\ f.log[7] = f.memory
  /\ f.log[2] = [mem EXCEPT !.generation = @ + 1]
  /\ \A um \in {update_mean(Sorted(x, fitness), mu, par, mem)} :
       /\ f.log[3] = [f.log[2] EXCEPT !.mean = um.mean]
       /\ \A ups \in {update_p_sigma(um.y_w, par, mem, rnd)} :
            /\ f.C_2 = ups.C_2
            /\ f.log[4] = [f.log[3] EXCEPT !.p_sigma = ups.p_sigma,
                                           !.C = ups.C,
                                           !.B = None, !.D = None]
       /\ \A upc \in {update_p_c(um.y_w, par, f.log[4])} :
            /\ f.log[5] = [f.log[4] EXCEPT !.p_c = upc.p_c]
            /\ f.log[6] =
                 [f.log[5] EXCEPT
                    !.C = update_covariance(um.y_k, upc.h_sigma, f.C_2, par,
                                            f.log[5])]
  /\ f.log[7] =
       [f.log[6] EXCEPT
          !.sigma = update_sigma(Norm(f.log[4].p_sigma), par, mem)]

\* C9: in every tell call the assignments run in this order and read these
\* values: generation first; the mean from the mean and sigma at entry;
\* p_sigma and C^(-1/2) from the decomposition of the covariance at entry,
\* with B and D set absent in the same assignment, before C is overwritten;
\* p_c from the p_sigma and generation already updated; the covariance from
\* the p_c already updated; sigma last, from the sigma at entry and the norm
\* of the new p_sigma.
C9_TellOrder ==
  (pc = "built" /\ memory.generation < MaxGen /\ Bounded(memory)) =>
    \A in \in TellInputs(memory, params) :
      \A f \in {tell_cma_strategy(Candidates(memory, in[1]), in[2],
                                  params.mu, params, memory, in[3])} :
         TellOrder(f, Candidates(memory, in[1]), in[2], params.mu, params,
                   memory, in[3])

\* C9 witness: a second tell has moved the mean, p_sigma, p_c, C and sigma
C9_Witness ==
  /\ pc = "built" /\ ret.op = "tell" /\ ntell >= 2
  /\ Finite(memory.sigma) /\ memory.sigma # One
  /\ memory.C # eye(Len(memory.mean))
  /\ \E i \in 1..Len(memory.mean) :
       memory.p_c[i] # 0 /\ memory.p_c[i] # NaN
  /\ \E i \in 1..Len(memory.mean) :
       memory.p_sigma[i] # 0 /\ memory.p_sigma[i] # NaN

\* C10: no call of ask, tell or check_termination, in any order, raises for
\* reading an absent B or D, and each decomposes exactly when the cache it
\* was handed is absent.
C10_LazyDecomposition ==
  [][ret'.op \in {"ask", "tell", "check_termination"} =>
       /\ ret'.raised # "AttributeError"
       /\ ret'.eigh = ~Cached(memory)]_vars

\* C10 witness: check_termination right after two tell calls decomposed
C10_Witness ==
  /\ pc = "built" /\ ret.op = "check_termination" /\ ret.eigh = TRUE
  /\ ntell >= 2 /\ ~Cached(memory)

====
